---- MODULE Spec2Model ----
(***************************************************************************)
(* pixpix (src/src/main.rs): an image rendered as half-block glyph art in  *)
(* a terminal.  Two parts are modelled:                                    *)
(*   - otsu_threshold, a pure function of a 256-bin luma histogram         *)
(*     (specification SpecOtsu);                                           *)
(*   - main, the pipeline argument -> terminal size -> decode -> grid plan *)
(*     -> clustering -> sampling -> rendering, one action per statement    *)
(*     that can fail or write (specification SpecMain).                    *)
(*                                                                         *)
(* Numbers.  The f64 values of otsu_threshold are modelled by exact        *)
(* rationals <<numerator, denominator>> in lowest terms; on the bounded    *)
(* histograms below the f64 computation and the exact one select the same  *)
(* threshold.  The u32 values of main are modelled by naturals; the bounds *)
(* keep every product far below 2^32, so no u32 operation overflows.       *)
(***************************************************************************)
EXTENDS Integers, Sequences, FiniteSets

VARIABLES
    \* ---- otsu_threshold ----
    hist,           \* the argument: [0..255 -> Nat]
    otsu_pc,        \* "entry" | "loop" | "returned" ("idle": not called)
    total_pixels,   \* hist.iter().sum()
    cumulative_sum, \* the prefix counts
    sum_total,      \* the sum of luma * count
    t,              \* the loop variable
    max_sigma,      \* the largest sigma so far
    threshold,      \* the local `threshold`; the returned u8 once returned
    \* ---- main ----
    pc,             \* position in main
    columns, rows,  \* the shadowed (columns, rows) bindings of main
    term,           \* what crossterm::terminal::size() returned
    width, height,  \* image.dimensions()
    unit_width, unit_height,
    image,          \* mean_color_image_with_edges: [x, y |-> colour]
    result,         \* the sampled image: [col, row |-> colour]
    sample_xy,      \* the coordinates from_fn read for each (col, row)
    row, col,       \* the loop variables of the render loops
    stdout,         \* the writes that reached standard output, in order
    cause           \* why the run aborted ("" while it has not)

otsu_vars == <<hist, otsu_pc, total_pixels, cumulative_sum, sum_total, t,
               max_sigma, threshold>>
main_vars == <<pc, columns, rows, term, width, height, unit_width, unit_height,
               image, result, sample_xy, row, col, stdout, cause>>
vars == <<otsu_vars, main_vars>>

(***************************************************************************)
(* Bounds of the model                                                     *)
(***************************************************************************)
\* The luma values a modelled histogram may hold pixels at.
LumaSamples == {0, 1, 127, 254, 255}
\* The largest pixel count of a modelled grayscale image.
MaxPixels == 4
\* The largest terminal: columns, and rows left once the reserved are taken.
MaxTermColumns == 5
MaxUsableRows == 3
\* The largest decoded image.
MaxWidth == 4
MaxHeight == 4

(***************************************************************************)
(* Exact rationals standing for f64                                        *)
(***************************************************************************)
Abs(n) == IF n < 0 THEN -n ELSE n

RECURSIVE Gcd(_, _)
Gcd(a, b) == IF b = 0 THEN a ELSE Gcd(b, a % b)

\* n/d in lowest terms with a positive denominator (d # 0).
Rat(n, d) ==
    LET g == Gcd(Abs(n), Abs(d))
        s == IF d < 0 THEN -1 ELSE 1
    IN  <<s * (n \div g), s * (d \div g)>>

RMul(a, b) ==
    LET x == Rat(a[1], b[2])
        y == Rat(b[1], a[2])
    IN  Rat(x[1] * y[1], x[2] * y[2])
RDiv(a, b) == RMul(a, Rat(b[2], b[1]))
RSub(a, b) ==
    LET g == Gcd(a[2], b[2])
    IN  Rat(a[1] * (b[2] \div g) - b[1] * (a[2] \div g), (a[2] \div g) * b[2])
RGreater(a, b) == a[1] * b[2] > b[1] * a[2]
RZero == <<0, 1>>
FromInt(n) == <<n, 1>>

(***************************************************************************)
(* otsu_threshold                                                          *)
(***************************************************************************)
NumBins == 256

\* The sum of h[i] * weight(i) over lo <= i < hi, halving the range.
RECURSIVE RangeSum(_, _, _, _)
RangeSum(h, lo, hi, weighted) ==
    IF hi <= lo THEN 0
    ELSE IF hi = lo + 1 THEN (IF weighted THEN lo * h[lo] ELSE h[lo])
    ELSE LET mid == (lo + hi) \div 2
         IN  RangeSum(h, lo, mid, weighted) + RangeSum(h, mid, hi, weighted)

\* hist.iter().sum()
SumBins(h) == RangeSum(h, 0, NumBins, FALSE)

\* cumulative_sum after its loop: entry i counts the pixels with luma <= i
CumulativeSum(h) == [i \in 0..(NumBins - 1) |-> RangeSum(h, 0, i + 1, FALSE)]

\* hist[..n].iter().enumerate().map(|(i, &v)| i as u32 * v).sum(): luma < n
WeightedSum(h, n) == RangeSum(h, 0, n, TRUE)

\* x as f64 / total_pixels.  With no pixel the divisor is 0.0 and the
\* quotient is NaN (0/0), which compares unequal to, and not greater than,
\* every number.
NaN == <<0, 0>>
IsNaN(a) == a[2] = 0
DivTotal(x, total) == IF total = 0 THEN NaN ELSE Rat(x, total)

\* The class weights of iteration i.
W0(cum, total, i) == DivTotal(cum[i], total)
W1(cum, total, i) == DivTotal(cum[NumBins - 1] - cum[i], total)

\* if w0 == 0.0 || w1 == 0.0 { continue; }
Skipped(w0, w1) == w0 = RZero \/ w1 = RZero

\* sigma of an iteration that is not skipped.
Sigma(h, sumtotal, w0, w1, i) ==
    IF IsNaN(w0) \/ IsNaN(w1) THEN NaN
    ELSE LET sum_w0 == WeightedSum(h, i)
             u0 == RDiv(FromInt(sum_w0), w0)
             sum_w1 == sumtotal - sum_w0
             u1 == RDiv(FromInt(sum_w1), w1)
             d == RSub(u1, u0)
         IN  RMul(RMul(w0, w1), RMul(d, d))

\* sigma > max_sigma
SigmaGreater(sigma, max) == ~IsNaN(sigma) /\ RGreater(sigma, max)

\* A faulty variant of ThresholdFloor: the loop's threshold is returned as it is.
ThresholdUnfloored(th) == th

\* if threshold == 0 { 1 } else { threshold }
ThresholdFloor(th) == IF th = 0 THEN 1 ELSE th

EmptyHist == [i \in 0..(NumBins - 1) |-> 0]

Histograms ==
    { [i \in 0..(NumBins - 1) |-> IF i \in LumaSamples THEN f[i] ELSE 0] :
        f \in { g \in [LumaSamples -> 0..MaxPixels] :
                  LET RECURSIVE S(_)
                      S(X) == IF X = {} THEN 0
                              ELSE LET x == CHOOSE y \in X : TRUE
                                   IN  g[x] + S(X \ {x})
                  IN  S(LumaSamples) <= MaxPixels } }

(***************************************************************************)
(* main                                                                    *)
(***************************************************************************)
\* `u32::from(rows) - 2`: the rows main leaves to the shell.  A terminal of
\* fewer rows makes the subtraction overflow and is outside the model.
ReservedRows == 2

Red == <<255, 0, 0>>

Pixels(w, h) == (0..(w - 1)) \X (0..(h - 1))

\* The decoded images of the model: a solid red one, and one whose every
\* pixel has a colour of its own.
SolidImage(w, h, c) == [p \in Pixels(w, h) |-> c]
CodedImage(w, h) == [p \in Pixels(w, h) |-> <<40 * p[1], 40 * p[2], 7>>]
DecodedImages(w, h) == {SolidImage(w, h, Red), CodedImage(w, h)}

RECURSIVE SumChannel(_, _, _)
SumChannel(img, S, ch) ==
    IF S = {} THEN 0
    ELSE LET p == CHOOSE q \in S : TRUE
         IN  img[p][ch] + SumChannel(img, S \ {p}, ch)

\* The mean colour of a cluster of pixels, per channel.
MeanColor(img, S) ==
    LET n == Cardinality(S)
    IN  <<SumChannel(img, S, 1) \div n, SumChannel(img, S, 2) \div n,
          SumChannel(img, S, 3) \div n>>

\* What slic and mean_colors (an external crate) may leave in
\* mean_color_image: every pixel holds the mean colour of its cluster.  Two
\* labellings stand for the crate's: one cluster per pixel, and one cluster
\* in all.
MeanColorImages(img) ==
    { img, [p \in DOMAIN img |-> MeanColor(img, DOMAIN img)] }

\* A faulty variant of PlanGrid: the aspect comparison is reversed.
PlanGridReversed(c, r, w, h) ==
    IF r * 2 * w > c * h
    THEN <<(r * 2 * w) \div h, r>>
    ELSE <<c, ((c * h) \div w) \div 2>>

\* Lines 86-90: the planned (columns, rows).
PlanGrid(c, r, w, h) ==
    IF r * 2 * w < c * h
    THEN <<(r * 2 * w) \div h, r>>
    ELSE <<c, ((c * h) \div w) \div 2>>

\* A faulty variant of SampleX: the offset is a whole unit, not half of one.
SampleXWholeUnit(x, w, c, uw) == uw + (x * w) \div c

\* Lines 110-111: the pixel from_fn reads for sample (x, y).
SampleX(x, w, c, uw) == uw \div 2 + (x * w) \div c
SampleY(y, h, r, uh) == uh \div 2 + (y * h) \div (r * 2)

\* A faulty variant of Foreground: the foreground is read from the cell's upper sample.
ForegroundFromUpperSample(res, c, r) == res[<<c, r>>]

\* Lines 119-120: the samples a cell's colours are read from.
Background(res, c, r) == res[<<c, r>>]
Foreground(res, c, r) == res[<<c, r + 1>>]

\* U+2584, whose lower half is painted in the foreground colour and whose
\* upper half shows the background colour.
LowerHalfBlock == "LOWER HALF BLOCK"

\* A faulty variant of CellWrites: the glyph is printed before its colours are set.
CellWritesGlyphFirst(fg, bg) ==
    << [op |-> "Print", glyph |-> LowerHalfBlock],
       [op |-> "SetForegroundColor", color |-> fg],
       [op |-> "SetBackgroundColor", color |-> bg] >>

\* Lines 127-132: the commands of one execute!, in the order queued.
CellWrites(fg, bg) ==
    << [op |-> "SetForegroundColor", color |-> fg],
       [op |-> "SetBackgroundColor", color |-> bg],
       [op |-> "Print", glyph |-> LowerHalfBlock] >>
ResetWrite == [op |-> "ResetColor"]
NewlineWrite == [op |-> "Newline"]

Prefix(seq, n) == SubSeq(seq, 1, n)

MainIdle ==
    /\ pc = "idle"
    /\ columns = 0 /\ rows = 0 /\ term = <<0, 0>>
    /\ width = 0 /\ height = 0
    /\ unit_width = 0 /\ unit_height = 0
    /\ image = <<>> /\ result = <<>> /\ sample_xy = <<>>
    /\ row = 0 /\ col = 0
    /\ stdout = <<>>
    /\ cause = ""

OtsuIdle ==
    /\ hist = EmptyHist
    /\ otsu_pc = "idle"
    /\ total_pixels = 0 /\ cumulative_sum = EmptyHist /\ sum_total = 0
    /\ t = 0 /\ max_sigma = RZero /\ threshold = 0

InitOtsu ==
    /\ hist \in Histograms
    /\ otsu_pc = "entry"
    /\ total_pixels = 0 /\ cumulative_sum = EmptyHist /\ sum_total = 0
    /\ t = 0 /\ max_sigma = RZero /\ threshold = 0
    /\ MainIdle

\* Lines 15-23: the sums, then max_sigma = 0.0, threshold = 0 and t = 1.
OtsuEnter ==
    /\ otsu_pc = "entry"
    /\ total_pixels' = SumBins(hist)
    /\ cumulative_sum' = CumulativeSum(hist)
    /\ sum_total' = WeightedSum(hist, NumBins)
    /\ max_sigma' = RZero
    /\ threshold' = 0
    /\ t' = 1
    /\ otsu_pc' = "loop"
    /\ UNCHANGED <<hist, main_vars>>

\* Lines 24-43: one iteration of `for t in 1u8..255`.
OtsuIterate ==
    /\ otsu_pc = "loop"
    /\ t < NumBins - 1
    /\ LET w0 == W0(cumulative_sum, total_pixels, t)
           w1 == W1(cumulative_sum, total_pixels, t)
           sigma == Sigma(hist, sum_total, w0, w1, t)
       IN  IF ~Skipped(w0, w1) /\ SigmaGreater(sigma, max_sigma)
           THEN max_sigma' = sigma /\ threshold' = t
           ELSE UNCHANGED <<max_sigma, threshold>>
    /\ t' = t + 1
    /\ UNCHANGED <<hist, otsu_pc, total_pixels, cumulative_sum, sum_total, main_vars>>

\* Line 46: the floor and the return.
OtsuReturn ==
    /\ otsu_pc = "loop"
    /\ t >= NumBins - 1
    /\ threshold' = ThresholdFloor(threshold)
    /\ otsu_pc' = "returned"
    /\ UNCHANGED <<hist, total_pixels, cumulative_sum, sum_total, t, max_sigma, main_vars>>

NextOtsu == OtsuEnter \/ OtsuIterate \/ OtsuReturn

SpecOtsu == InitOtsu /\ [][NextOtsu]_vars

(***************************************************************************)
(* The actions of main                                                     *)
(***************************************************************************)
\* A panic: the run ends where it stands.
Abort(why) ==
    /\ pc' = "aborted"
    /\ cause' = why

InitMain ==
    /\ pc = "args"
    /\ columns = 0 /\ rows = 0 /\ term = <<0, 0>>
    /\ width = 0 /\ height = 0
    /\ unit_width = 0 /\ unit_height = 0
    /\ image = <<>> /\ result = <<>> /\ sample_xy = <<>>
    /\ row = 0 /\ col = 0
    /\ stdout = <<>>
    /\ cause = ""
    /\ OtsuIdle

\* Line 76: the image path, or a panic when there is none.
GetImagePath ==
    /\ pc = "args"
    /\ \E present \in BOOLEAN :
         IF present
         THEN pc' = "terminal_size" /\ UNCHANGED cause
         ELSE Abort("missing_argument")
    /\ UNCHANGED <<columns, rows, term, width, height, unit_width, unit_height,
                   image, result, sample_xy, row, col, stdout, otsu_vars>>

\* Lines 78-80: the terminal's size, or a panic; rows loses the reserved rows.
TerminalSize ==
    /\ pc = "terminal_size"
    /\ \/ /\ Abort("terminal_size")
          /\ UNCHANGED <<columns, rows, term>>
       \/ \E c \in 1..MaxTermColumns, r \in ReservedRows..(ReservedRows + MaxUsableRows) :
            /\ term' = <<c, r>>
            /\ columns' = c
            /\ rows' = r - ReservedRows
            /\ pc' = "open"
            /\ UNCHANGED cause
    /\ UNCHANGED <<width, height, unit_width, unit_height, image, result,
                   sample_xy, row, col, stdout, otsu_vars>>

\* Lines 82-84: the decoded image and its dimensions, or a panic.
OpenImage ==
    /\ pc = "open"
    /\ \/ /\ Abort("decode")
          /\ UNCHANGED <<width, height, image>>
       \/ \E w \in 1..MaxWidth, h \in 1..MaxHeight :
            \E img \in DecodedImages(w, h) :
               /\ width' = w
               /\ height' = h
               /\ image' = img
               /\ pc' = "plan"
               /\ UNCHANGED cause
    /\ UNCHANGED <<columns, rows, term, unit_width, unit_height, result,
                   sample_xy, row, col, stdout, otsu_vars>>

\* Lines 86-90: (columns, rows) are rebound to the planned grid.
Plan ==
    /\ pc = "plan"
    /\ LET grid == PlanGrid(columns, rows, width, height)
       IN  columns' = grid[1] /\ rows' = grid[2]
    /\ pc' = "units"
    /\ UNCHANGED <<term, width, height, unit_width, unit_height, image, result,
                   sample_xy, row, col, stdout, cause, otsu_vars>>

\* Lines 92-93: the two divisions; a zero divisor panics.
Units ==
    /\ pc = "units"
    /\ IF columns = 0 \/ rows * 2 = 0
       THEN /\ Abort("division_by_zero")
            /\ UNCHANGED <<unit_width, unit_height>>
       ELSE /\ unit_width' = width \div columns
            /\ unit_height' = height \div (rows * 2)
            /\ pc' = "slic"
            /\ UNCHANGED cause
    /\ UNCHANGED <<columns, rows, term, width, height, image, result,
                   sample_xy, row, col, stdout, otsu_vars>>

\* Lines 95-102: the Lab buffer and slic(k, m, ...) with k = columns*rows*2
\* and m = 10, which may fail.
Slic ==
    /\ pc = "slic"
    /\ \E ok \in BOOLEAN :
         IF ok
         THEN pc' = "mean_colors" /\ UNCHANGED cause
         ELSE Abort("clustering")
    /\ UNCHANGED <<columns, rows, term, width, height, unit_width, unit_height,
                   image, result, sample_xy, row, col, stdout, otsu_vars>>

\* A faulty variant of MeanColors: the step is deferred until a row of cells has been
\* written, and fails there.
MeanColorsDeferred ==
    /\ \/ /\ pc = "mean_colors"
          /\ pc' = "sample"
          /\ UNCHANGED cause
       \/ /\ pc = "reset"
          /\ Abort("mean_colors")
    /\ UNCHANGED <<columns, rows, term, width, height, unit_width, unit_height,
                   image, result, sample_xy, row, col, stdout, otsu_vars>>

\* Lines 103-107: mean_colors, which may fail, and the image rebuilt from
\* its buffer (of the image's own size: from_raw succeeds).
MeanColors ==
    /\ pc = "mean_colors"
    /\ \/ /\ Abort("mean_colors")
          /\ UNCHANGED image
       \/ \E img \in MeanColorImages(image) :
            /\ image' = img
            /\ pc' = "sample"
            /\ UNCHANGED cause
    /\ UNCHANGED <<columns, rows, term, width, height, unit_width, unit_height,
                   result, sample_xy, row, col, stdout, otsu_vars>>

\* Lines 109-113: from_fn over columns x 2*rows samples; get_pixel panics
\* on a coordinate outside the image.
Sample ==
    /\ pc = "sample"
    /\ LET at == [s \in Pixels(columns, 2 * rows) |->
                    << SampleX(s[1], width, columns, unit_width),
                       SampleY(s[2], height, rows, unit_height) >>]
       IN  /\ sample_xy' = at
           /\ IF \A s \in DOMAIN at : at[s] \in DOMAIN image
              THEN /\ result' = [s \in DOMAIN at |-> image[at[s]]]
                   /\ pc' = "cell"
                   /\ UNCHANGED cause
              ELSE /\ Abort("out_of_bounds")
                   /\ UNCHANGED result
    /\ row' = 0
    /\ col' = 0
    /\ UNCHANGED <<columns, rows, term, width, height, unit_width, unit_height,
                   image, stdout, otsu_vars>>

\* Lines 118-134: one cell.  The execute! writes its three commands and
\* flushes; when it fails, only some of them reached the stream and the
\* unwrap panics.
RenderCell ==
    /\ pc = "cell"
    /\ LET writes == CellWrites(Foreground(result, col, row),
                                Background(result, col, row))
       IN  \/ /\ stdout' = stdout \o writes
              /\ col' = col + 1
              /\ pc' = IF col + 1 < columns THEN "cell" ELSE "reset"
              /\ UNCHANGED cause
           \/ \E n \in 0..(Len(writes) - 1) :
                /\ stdout' = stdout \o Prefix(writes, n)
                /\ Abort("write_cell")
                /\ UNCHANGED col
    /\ UNCHANGED <<columns, rows, term, width, height, unit_width, unit_height,
                   image, result, sample_xy, row, otsu_vars>>

\* Line 135: the reset after the row's cells.
ResetColor ==
    /\ pc = "reset"
    /\ \/ /\ stdout' = Append(stdout, ResetWrite)
          /\ pc' = "newline"
          /\ UNCHANGED cause
       \/ /\ Abort("write_reset")
          /\ UNCHANGED stdout
    /\ UNCHANGED <<columns, rows, term, width, height, unit_width, unit_height,
                   image, result, sample_xy, row, col, otsu_vars>>

\* Lines 136 and 117: the line break, then the next row (step_by(2)) or the
\* end of main.
Newline ==
    /\ pc = "newline"
    /\ \/ /\ stdout' = Append(stdout, NewlineWrite)
          /\ row' = row + 2
          /\ col' = 0
          /\ pc' = IF row + 2 < 2 * rows THEN "cell" ELSE "done"
          /\ UNCHANGED cause
       \/ /\ Abort("write_newline")
          /\ UNCHANGED <<stdout, row, col>>
    /\ UNCHANGED <<columns, rows, term, width, height, unit_width, unit_height,
                   image, result, sample_xy, otsu_vars>>

NextMain ==
    \/ GetImagePath
    \/ TerminalSize
    \/ OpenImage
    \/ Plan
    \/ Units
    \/ Slic
    \/ MeanColors
    \/ Sample
    \/ RenderCell
    \/ ResetColor
    \/ Newline

SpecMain == InitMain /\ [][NextMain]_vars

(***************************************************************************)
(* Properties of otsu_threshold (under SpecOtsu)                           *)
(***************************************************************************)
\* Iteration i of the loop is skipped: one of the weights it computes is 0.
IterationSkipped(i) ==
    Skipped(W0(cumulative_sum, total_pixels, i), W1(cumulative_sum, total_pixels, i))

ClassCount0(i) == RangeSum(hist, 0, i, FALSE)
ClassCount1(i) == total_pixels - ClassCount0(i)
Candidates == { i \in 1..(NumBins - 2) : ClassCount0(i) > 0 /\ ClassCount1(i) > 0 }
BetweenClassVariance(i) ==
    LET w0 == Rat(ClassCount0(i), total_pixels)
        w1 == Rat(ClassCount1(i), total_pixels)
        u0 == Rat(WeightedSum(hist, i), ClassCount0(i))
        u1 == Rat(sum_total - WeightedSum(hist, i), ClassCount1(i))
        d == RSub(u1, u0)
    IN  RMul(RMul(w0, w1), RMul(d, d))

\* C8: the returned threshold is the lowest t in 1..254 that maximizes
\* sigma(t) = w0*w1*(u1-u0)^2, with w0 the fraction of pixels of luma < t,
\* w1 = 1 - w0 and u0, u1 the mean lumas of the two classes; a t with an
\* empty class is no candidate.
C8_LowestMaximizer ==
    (otsu_pc = "returned" /\ total_pixels > 0 /\ Candidates # {}) =>
        /\ threshold \in Candidates
        /\ \A i \in Candidates :
              /\ ~RGreater(BetweenClassVariance(i), BetweenClassVariance(threshold))
              /\ i < threshold =>
                    RGreater(BetweenClassVariance(threshold), BetweenClassVariance(i))

(***************************************************************************)
(* Properties of main (under SpecMain)                                     *)
(***************************************************************************)
\* The panics of the render loop: a failed write of a cell, of the reset or
\* of the line break.
WriteFailures == {"write_cell", "write_reset", "write_newline"}

\* The grid has been planned: main is past line 90.
Planned ==
    \/ pc \in {"units", "slic", "mean_colors", "sample", "cell", "reset",
               "newline", "done"}
    \/ /\ pc = "aborted"
       /\ cause \in {"division_by_zero", "clustering", "mean_colors",
                     "out_of_bounds"} \cup WriteFailures

\* The rows main may use: those reported less the reserved ones.
UsableRows == term[2] - ReservedRows

\* C2: with terminal columns, usable rows, width and height all positive,
\* the planned grid exceeds the terminal in neither axis, whichever branch
\* of the aspect comparison planned it.
C2_GridFitsTerminal ==
    (Planned /\ term[1] > 0 /\ UsableRows > 0 /\ width > 0 /\ height > 0) =>
        /\ columns <= term[1]
        /\ rows <= UsableRows

\* The first branch planned a grid narrower than the terminal.
C2_Witness ==
    /\ pc = "units"
    /\ UsableRows > 0
    /\ UsableRows * 2 * width < term[1] * height
    /\ columns >= 1
    /\ columns < term[1]
    /\ rows = UsableRows

\* C3: for a 1x1 image and a terminal of at least one column and one usable
\* row, the planned grid has at least one column and one row and the two
\* unit divisions do not divide by zero.
C3_OnePixelImage ==
    (Planned /\ width = 1 /\ height = 1 /\ term[1] >= 1 /\ UsableRows >= 1) =>
        /\ columns >= 1
        /\ rows >= 1
        /\ cause # "division_by_zero"

\* C4: a 4x2 solid red image on a terminal reporting 2 columns x 3 rows is
\* planned as a 2x1 grid, and the run ends having written one row of two
\* cells whose foreground and background are both red.
C4_SolidRedScenario ==
    (Planned /\ term = <<2, 3>> /\ width = 4 /\ height = 2
             /\ \A p \in DOMAIN image : image[p] = Red) =>
        /\ columns = 2
        /\ rows = 1
        /\ pc = "aborted" => cause \in WriteFailures
        /\ pc = "done" =>
              stdout = CellWrites(Red, Red) \o CellWrites(Red, Red)
                          \o <<ResetWrite, NewlineWrite>>

\* The writes of one row of c cells, and the position of row r's first.
RowLength(c) == 3 * c + 2
RowBase(c, r) == r * RowLength(c)

\* The operation expected at position i of the output of a c x r grid.
ExpectedOp(c, i) ==
    LET k == (i - 1) % RowLength(c)
    IN  IF k = 3 * c THEN "ResetColor"
        ELSE IF k = 3 * c + 1 THEN "Newline"
        ELSE IF k % 3 = 0 THEN "SetForegroundColor"
        ELSE IF k % 3 = 1 THEN "SetBackgroundColor"
        ELSE "Print"

\* C5: standard output is written row-major: each row is columns writes of
\* (set foreground, set background, glyph), then one reset, then one line
\* break, before the next row's first cell; a run that reaches the end has
\* written exactly rows such rows.
C5_RowMajorOutput ==
    Planned =>
        /\ Len(stdout) <= rows * RowLength(columns)
        /\ \A i \in 1..Len(stdout) : stdout[i].op = ExpectedOp(columns, i)
        /\ pc = "cell" => Len(stdout) = RowBase(columns, row \div 2) + 3 * col
        /\ pc = "done" => Len(stdout) = rows * RowLength(columns)

\* A grid of several rows and columns has been rendered to the end.
C5_Witness ==
    /\ pc = "done"
    /\ rows >= 2
    /\ columns >= 2
    /\ Len(stdout) = rows * RowLength(columns)

\* C6: when the run aborts for a missing argument, a failed terminal-size
\* query, a failed decode or a failed clustering or mean-colour step,
\* nothing has been written to standard output.
C6_NoOutputBeforeFatalFailure ==
    (pc = "aborted" /\ cause \in {"missing_argument", "terminal_size", "decode",
                                  "clustering", "mean_colors"}) =>
        stdout = <<>>

\* The last fallible stage before rendering has failed.
C6_Witness ==
    /\ pc = "aborted"
    /\ cause = "mean_colors"
    /\ columns >= 1
    /\ rows >= 1
    /\ stdout = <<>>

\* C7: once a styled cell of a row has been written, a colour reset for that
\* row has been written by the time the run ends, also when a later write of
\* the row fails (the reset's own write is taken to succeed).
C7_ResetAfterStyledRow ==
    (Planned /\ pc \in {"done", "aborted"} /\ cause # "write_reset") =>
        \A r \in 0..(rows - 1) :
            Len(stdout) >= RowBase(columns, r) + 3 =>
                /\ Len(stdout) >= RowBase(columns, r) + 3 * columns + 1
                /\ stdout[RowBase(columns, r) + 3 * columns + 1] = ResetWrite

\* The colours a written cell shows in its upper and lower half.
UpperHalf(fg, bg, glyph) == IF glyph = LowerHalfBlock THEN bg ELSE fg
LowerHalf(fg, bg, glyph) == IF glyph = LowerHalfBlock THEN fg ELSE bg

\* C9: every written cell (c, r) is one half-block glyph whose background is
\* the sample of row 2r and whose foreground is the sample of row 2r+1 of
\* column c, so that its upper half shows the upper sample and its lower
\* half the lower one.
C9_CellColorPairing ==
    Planned =>
        \A r \in 0..(rows - 1), c \in 0..(columns - 1) :
            LET base == RowBase(columns, r) + 3 * c
            IN  Len(stdout) >= base + 3 =>
                  /\ stdout[base + 1] =
                        [op |-> "SetForegroundColor", color |-> result[<<c, 2 * r + 1>>]]
                  /\ stdout[base + 2] =
                        [op |-> "SetBackgroundColor", color |-> result[<<c, 2 * r>>]]
                  /\ stdout[base + 3].op = "Print"
                  /\ UpperHalf(stdout[base + 1].color, stdout[base + 2].color,
                               stdout[base + 3].glyph) = result[<<c, 2 * r>>]
                  /\ LowerHalf(stdout[base + 1].color, stdout[base + 2].color,
                               stdout[base + 3].glyph) = result[<<c, 2 * r + 1>>]
                  /\ sample_xy[<<c, 2 * r>>][2] <= sample_xy[<<c, 2 * r + 1>>][2]

\* A cell whose two samples differ has been written in the second row.
C9_Witness ==
    /\ pc = "done"
    /\ rows >= 2
    /\ result[<<0, 2>>] # result[<<0, 3>>]
    /\ stdout[RowBase(columns, 1) + 1].color = result[<<0, 3>>]
    /\ stdout[RowBase(columns, 1) + 2].color = result[<<0, 2>>]

\* C10: every sample (col, row) of a planned grid with at least one column
\* and one row is read at a pixel inside the image, x < width and
\* y < height, also when the grid has more columns or sample rows than the
\* image has pixels.
C10_SamplesInsideImage ==
    /\ cause # "out_of_bounds"
    /\ sample_xy # <<>> =>
          /\ DOMAIN sample_xy = Pixels(columns, 2 * rows)
          /\ \A s \in DOMAIN sample_xy :
                /\ sample_xy[s][1] >= 0 /\ sample_xy[s][1] < width
                /\ sample_xy[s][2] >= 0 /\ sample_xy[s][2] < height

\* A grid with more columns and more sample rows than the image has pixels
\* has been sampled.
C10_Witness ==
    /\ pc = "cell"
    /\ columns > width
    /\ 2 * rows > height
    /\ sample_xy # <<>>
    /\ \A s \in DOMAIN sample_xy : sample_xy[s] \in DOMAIN image

====
